---- MODULE Spec2Model ----
(***************************************************************************)
(* A state-machine model of index.js: an Express server whose account      *)
(* routes (signup, login, google-signup) and catalog routes (products)     *)
(* are thin handlers over two MongoDB collections.                         *)
(*                                                                         *)
(* Every `await` of a handler is a point where other requests may run, so  *)
(* each handler is cut into one action per awaited operation.  A store     *)
(* operation (findOne, insertOne, ...) is atomic at the store.             *)
(***************************************************************************)
EXTENDS Integers, Sequences, FiniteSets, TLC

\* Bound of the model: the number of HTTP requests the server receives.
MaxReq == 3

\* Requests that may be in flight together (handler invocations).
Slots == {"h1", "h2"}

VARIABLES
    pcMain,             \* position of the top-level script (lines 249-253)
    conn,               \* state of client.connect() (line 27)
    listening,          \* app.listen has been called (line 251)
    routes,             \* the handlers of run() have been registered
    userCollection,     \* techtrove_users, in insertion order
    productCollection,  \* techtrove_products, in insertion order
    nextId,             \* the next ObjectId the driver generates
    nreq,               \* requests received so far
    req,                \* per slot: the request and its handler's locals
    resp                \* per slot: the response sent, if any

vars == <<pcMain, conn, listening, routes, userCollection, productCollection,
          nextId, nreq, req, resp>>

(***************************************************************************)
(* Values                                                                  *)
(***************************************************************************)
Emails == {"a@x", "A@x"}
Passwords == {"pw1", "pw2"}

\* String.prototype.toLowerCase on the strings the model uses.
toLowerCase(s) ==
    CASE s = "A@x" -> "a@x"
      [] s = "M" -> "m"
      [] s = "P" -> "p"
      [] OTHER -> s

\* JavaScript truthiness of body field f: undefined and "" are falsy.
Truthy(o, f) == f \in DOMAIN o /\ o[f] # ""

\* bcrypt.hash(password, 10): a one-way value, never the password itself.
bcryptHash(password) == [alg |-> "bcrypt", cost |-> 10, of |-> password]

\* bcrypt.compare(password, hash) rejects when hash is not a string.
bcryptCompareThrows(user) == "password" \notin DOMAIN user
bcryptCompare(password, hash) == hash = bcryptHash(password)

\* ObjectId: the driver's identifiers are 0..MaxReq here; toString gives the
\* external string form and new ObjectId(string) parses it back.
ObjectIds == 0..MaxReq
oidToString(n) == ToString(n)
ObjectIdIsValid(s) == \E n \in ObjectIds : oidToString(n) = s
NewObjectId(s) == CHOOSE n \in ObjectIds : oidToString(n) = s
IdParams == {oidToString(n) : n \in ObjectIds} \cup {"xyz"}

\* new Date(): the value is never read by a handler.
NewDate == "Date"

\* collection.findOne(filter): the first document, in store order, that the
\* filter accepts; Null when none does.
Null == [null |-> TRUE]
First(coll, m) ==
    IF m = {} THEN Null ELSE coll[CHOOSE i \in m : \A j \in m : i <= j]

findOneByEmail(coll, email) ==
    First(coll, {i \in 1..Len(coll) : coll[i].email = email})

findOneById(coll, oid) ==
    First(coll, {i \in 1..Len(coll) : coll[i]._id = oid})

\* collection.insertOne(doc): the driver adds a fresh _id to doc.
WithId(doc, oid) == [_id |-> oid] @@ doc

(***************************************************************************)
(* Requests and responses                                                  *)
(***************************************************************************)
Idle == [kind |-> "none", pc |-> "idle", ops |-> 0]

InFlight(r) == req[r].pc \notin {"idle", "done"}
Free(r) == ~InFlight(r)
NoneInFlight == \A r \in Slots : Free(r)

\* A request is taken by the first free slot.
Accepting(r) ==
    /\ listening
    /\ nreq < MaxReq
    /\ Free(r)
    /\ \A q \in Slots : Free(q) => (r = "h1" \/ q # "h1")

\* res.status(status).send(body), ending the handler.
Send(r, status, body) ==
    /\ resp' = [resp EXCEPT ![r] = <<[status |-> status, body |-> body]>>]
    /\ req' = [req EXCEPT ![r].pc = "done"]

\* The same, after a store operation of the handler.
SendAfterOp(r, status, body) ==
    /\ resp' = [resp EXCEPT ![r] = <<[status |-> status, body |-> body]>>]
    /\ req' = [req EXCEPT ![r].pc = "done", ![r].ops = @ + 1]

\* The handler resumes after an awaited store operation and reaches its next
\* await.
NextAwait(r, pc) ==
    /\ req' = [req EXCEPT ![r].pc = pc, ![r].ops = @ + 1]
    /\ UNCHANGED resp

\* The same, keeping the operation's result in a local of the handler.
NextAwaitWith(r, pc, local, value) ==
    /\ req' = [req EXCEPT ![r] = (local :> value) @@ [@ EXCEPT !.pc = pc, !.ops = @ + 1]]
    /\ UNCHANGED resp

\* A request arrives and the handler runs to its first await.
Begin(r, kind, body, pc) ==
    /\ nreq' = nreq + 1
    /\ req' = [req EXCEPT ![r] = [kind |-> kind, body |-> body, pc |-> pc, ops |-> 0]]
    /\ resp' = [resp EXCEPT ![r] = <<>>]

\* A request arrives and is answered before any await.
Reject(r, kind, body, status, out) ==
    /\ nreq' = nreq + 1
    /\ req' = [req EXCEPT ![r] = [kind |-> kind, body |-> body, pc |-> "done", ops |-> 0]]
    /\ resp' = [resp EXCEPT ![r] = <<[status |-> status, body |-> out]>>]

Main == <<pcMain, conn, listening, routes>>
Store == <<userCollection, productCollection, nextId>>

(***************************************************************************)
(* The top-level script and run()                                          *)
(***************************************************************************)
Init ==
    /\ pcMain = "run"
    /\ conn = "none"
    /\ listening = FALSE
    /\ routes = FALSE
    /\ userCollection = <<>>
    /\ productCollection = <<>>
    /\ nextId = 1
    /\ nreq = 0
    /\ req = [r \in Slots |-> Idle]
    /\ resp = [r \in Slots |-> <<>>]

\* run() is called and runs to `await client.connect()`.
RunCalled ==
    /\ pcMain = "run"
    /\ pcMain' = "listen"
    /\ conn' = "connecting"
    /\ UNCHANGED <<listening, routes, Store, nreq, req, resp>>

\* app.listen(port): the next statement of the script, run() not awaited.
Listen ==
    /\ pcMain = "listen"
    /\ pcMain' = "end"
    /\ listening' = TRUE
    /\ UNCHANGED <<conn, routes, Store, nreq, req, resp>>

\* client.connect() resolves: run() continues and registers the handlers.
\* The continuation runs only after the script has run to its end.
ConnectResolves ==
    /\ pcMain = "end"
    /\ conn = "connecting"
    /\ conn' = "connected"
    /\ routes' = TRUE
    /\ UNCHANGED <<pcMain, listening, Store, nreq, req, resp>>

\* client.connect() rejects: the catch of run() logs, no handler is registered.
ConnectRejects ==
    /\ pcMain = "end"
    /\ conn = "connecting"
    /\ conn' = "failed"
    /\ UNCHANGED <<pcMain, listening, routes, Store, nreq, req, resp>>

\* GET / is registered by the script itself, before app.listen.
GetRoot(r) ==
    /\ Accepting(r)
    /\ Reject(r, "root", [path |-> "/"], 200, [text |-> "Server is running..."])
    /\ UNCHANGED <<Main, Store>>

UnroutedPaths == {"/signup", "/product"}

\* A request for a route of run() while none is registered: Express answers
\* 404 ("Cannot <METHOD> <path>") itself and no handler runs.
Unrouted(r) ==
    /\ Accepting(r)
    /\ ~routes
    /\ \E p \in UnroutedPaths :
           Reject(r, "unrouted", [path |-> p], 404, [text |-> "Cannot <METHOD> <path>"])
    /\ UNCHANGED <<Main, Store>>

(***************************************************************************)
(* POST /signup (lines 36-74)                                              *)
(***************************************************************************)
SignupBodies ==
    {[name |-> "n", email |-> e, username |-> "u", password |-> p] :
        e \in Emails, p \in Passwords}
    \cup {[name |-> "n", email |-> "a@x", username |-> "u"],
          [name |-> "n", email |-> "", username |-> "u", password |-> "pw1"]}

signup_valid(body) ==
    /\ Truthy(body, "name")
    /\ Truthy(body, "email")
    /\ Truthy(body, "username")
    /\ Truthy(body, "password")

signup(r) ==
    /\ Accepting(r)
    /\ routes
    /\ \E body \in SignupBodies :
        IF ~signup_valid(body)
        THEN Reject(r, "signup", body, 400, [error |-> "All fields are required"])
        ELSE Begin(r, "signup", body, "findOne")
    /\ UNCHANGED <<Main, Store>>

\* Variant: the lookup normalises the email as login does.
signup_existingUser_lowercased(r) ==
    findOneByEmail(userCollection, toLowerCase(req[r].body.email))

signup_existingUser(r) == findOneByEmail(userCollection, req[r].body.email)

signup_findOne(r) ==
    /\ req[r].kind = "signup"
    /\ req[r].pc = "findOne"
    /\ IF signup_existingUser(r) # Null
       THEN SendAfterOp(r, 409, [error |-> "Email already registered"])
       ELSE NextAwait(r, "insertOne")
    /\ UNCHANGED <<Main, Store, nreq>>

\* bcrypt.hash is awaited between the lookup and the insert; it reads and
\* writes nothing shared, so it is taken together with the insert.
signup_newUser(r) ==
    [name |-> req[r].body.name,
     email |-> req[r].body.email,
     username |-> req[r].body.username,
     password |-> bcryptHash(req[r].body.password),
     createdAt |-> NewDate]

signup_response(insertedId) ==
    [success |-> TRUE, message |-> "User registered successfully", userId |-> insertedId]

\* Variant: a unique index on email, the insert failing with a duplicate key.
signup_insertOne_unique(r) ==
    /\ req[r].kind = "signup"
    /\ req[r].pc = "insertOne"
    /\ IF findOneByEmail(userCollection, req[r].body.email) # Null
       THEN /\ SendAfterOp(r, 500, [error |-> "E11000 duplicate key error"])
            /\ UNCHANGED <<userCollection, nextId>>
       ELSE /\ userCollection' = Append(userCollection, WithId(signup_newUser(r), nextId))
            /\ nextId' = nextId + 1
            /\ SendAfterOp(r, 200, signup_response(nextId))
    /\ UNCHANGED <<Main, productCollection, nreq>>

signup_insertOne(r) ==
    /\ req[r].kind = "signup"
    /\ req[r].pc = "insertOne"
    /\ userCollection' = Append(userCollection, WithId(signup_newUser(r), nextId))
    /\ nextId' = nextId + 1
    /\ SendAfterOp(r, 200, signup_response(nextId))
    /\ UNCHANGED <<Main, productCollection, nreq>>

(***************************************************************************)
(* POST /login (lines 77-114)                                              *)
(***************************************************************************)
LoginBodies ==
    {[email |-> e, password |-> p] : e \in Emails, p \in Passwords}
    \cup {[email |-> "a@x"]}

InvalidCredentials == [error |-> "Invalid credentials"]

login(r) ==
    /\ Accepting(r)
    /\ routes
    /\ \E body \in LoginBodies :
        IF ~(Truthy(body, "email") /\ Truthy(body, "password"))
        THEN Reject(r, "login", body, 400, [error |-> "Email and password required"])
        ELSE Begin(r, "login", body, "findOne")
    /\ UNCHANGED <<Main, Store>>

login_user(r) == findOneByEmail(userCollection, toLowerCase(req[r].body.email))

\* Variant: a lookup that finds nothing is repeated with the email as sent.
login_findOne_retry(r) ==
    /\ req[r].kind = "login"
    /\ req[r].pc = "findOne"
    /\ IF login_user(r) # Null
       THEN NextAwaitWith(r, "compare", "user", login_user(r))
       ELSE LET user == findOneByEmail(userCollection, req[r].body.email)
            IN  IF user = Null
                THEN /\ resp' = [resp EXCEPT ![r] =
                                    <<[status |-> 401, body |-> InvalidCredentials]>>]
                     /\ req' = [req EXCEPT ![r].pc = "done", ![r].ops = @ + 2]
                ELSE /\ req' = [req EXCEPT ![r] =
                                    [user |-> user]
                                    @@ [@ EXCEPT !.pc = "compare", !.ops = @ + 2]]
                     /\ UNCHANGED resp
    /\ UNCHANGED <<Main, Store, nreq>>

login_findOne(r) ==
    /\ req[r].kind = "login"
    /\ req[r].pc = "findOne"
    /\ IF login_user(r) = Null
       THEN SendAfterOp(r, 401, InvalidCredentials)
       ELSE NextAwaitWith(r, "compare", "user", login_user(r))
    /\ UNCHANGED <<Main, Store, nreq>>

\* The user view; a field whose value is undefined is left out of the JSON.
login_view(user) ==
    LET view == [id |-> oidToString(user._id), name |-> user.name, email |-> user.email]
    IN  IF "username" \in DOMAIN user
        THEN [username |-> user.username] @@ view
        ELSE view

\* bcrypt.compare(password, user.password); a rejection goes to the catch.
login_compare(r) ==
    /\ req[r].kind = "login"
    /\ req[r].pc = "compare"
    /\ LET user == req[r].user
       IN  IF bcryptCompareThrows(user)
           THEN Send(r, 500, [error |-> "Illegal arguments: string, undefined"])
           ELSE IF ~bcryptCompare(req[r].body.password, user.password)
           THEN Send(r, 401, InvalidCredentials)
           ELSE Send(r, 200, [success |-> TRUE, user |-> login_view(user)])
    /\ UNCHANGED <<Main, Store, nreq>>

(***************************************************************************)
(* POST /google-signup (lines 117-145)                                     *)
(***************************************************************************)
GoogleBodies ==
    {[email |-> e, name |-> "n", googleId |-> "g"] : e \in Emails}
    \cup {[email |-> "a@x", name |-> "n"]}

google_signup(r) ==
    /\ Accepting(r)
    /\ routes
    /\ \E body \in GoogleBodies :
        IF ~(Truthy(body, "email") /\ Truthy(body, "name") /\ Truthy(body, "googleId"))
        THEN Reject(r, "google-signup", body, 400, [error |-> "Missing required fields"])
        ELSE Begin(r, "google-signup", body, "findOne")
    /\ UNCHANGED <<Main, Store>>

\* Variant: the lookup normalises the email as login does.
google_user_lowercased(r) ==
    findOneByEmail(userCollection, toLowerCase(req[r].body.email))

google_user(r) == findOneByEmail(userCollection, req[r].body.email)

\* An existing user is sent as the store returned it.
google_response(user) == [success |-> TRUE, user |-> user]

google_findOne(r) ==
    /\ req[r].kind = "google-signup"
    /\ req[r].pc = "findOne"
    /\ IF google_user(r) = Null
       THEN NextAwait(r, "insertOne")
       ELSE SendAfterOp(r, 200, google_response(google_user(r)))
    /\ UNCHANGED <<Main, Store, nreq>>

google_newUser(r) ==
    [name |-> req[r].body.name,
     email |-> req[r].body.email,
     googleId |-> req[r].body.googleId,
     createdAt |-> NewDate]

\* user = { ...newUser, id: result.insertedId.toString() }, newUser carrying
\* the _id insertOne gave it.
google_insertOne(r) ==
    /\ req[r].kind = "google-signup"
    /\ req[r].pc = "insertOne"
    /\ userCollection' = Append(userCollection, WithId(google_newUser(r), nextId))
    /\ nextId' = nextId + 1
    /\ SendAfterOp(r, 200, google_response([id |-> oidToString(nextId)]
                                           @@ WithId(google_newUser(r), nextId)))
    /\ UNCHANGED <<Main, productCollection, nreq>>

(***************************************************************************)
(* GET /products (lines 151-169)                                           *)
(***************************************************************************)
\* Titles and search strings are sequences of characters.
Mouse == <<"M", "o", "u", "s", "e">>
Pad == <<"P", "a", "d">>
mouse == <<"m", "o", "u">>

\* { $regex: search, $options: "i" } for a search string of letters: some
\* substring of title equals search, case ignored.
regexMatchI(title, search) ==
    \E i \in 0..(Len(title) - Len(search)) :
        \A k \in 1..Len(search) : toLowerCase(title[i + k]) = toLowerCase(search[k])

\* req.query; page is a parameter the handler does not read.
ListQueries ==
    {[page |-> "1"],
     [category |-> "Laptop"],
     [search |-> mouse],
     [category |-> "Laptop", search |-> mouse]}

listProducts(r) ==
    /\ Accepting(r)
    /\ routes
    /\ \E query \in ListQueries : Begin(r, "listProducts", query, "find")
    /\ UNCHANGED <<Main, Store>>

\* The filter built at lines 154-162.
list_accepts(query, d) ==
    /\ Truthy(query, "category") => d.category = query.category
    /\ Truthy(query, "search") => regexMatchI(d.title, query.search)

list_find(coll, query) == SelectSeq(coll, LAMBDA d : list_accepts(query, d))

listProducts_find(r) ==
    /\ req[r].kind = "listProducts"
    /\ req[r].pc = "find"
    /\ SendAfterOp(r, 200, [array |-> list_find(productCollection, req[r].body)])
    /\ UNCHANGED <<Main, Store, nreq>>

(***************************************************************************)
(* GET /product/:id (lines 172-184)                                        *)
(***************************************************************************)
BSONError == [error |-> "input must be a 24 character hex string"]

\* new ObjectId(id) is evaluated before the await; when it throws the catch
\* answers 500 and findOne is never called.
getProduct(r) ==
    /\ Accepting(r)
    /\ routes
    /\ \E id \in IdParams :
        IF ~ObjectIdIsValid(id)
        THEN Reject(r, "getProduct", [id |-> id], 500, BSONError)
        ELSE Begin(r, "getProduct", [id |-> id], "findOne")
    /\ UNCHANGED <<Main, Store>>

getProduct_findOne(r) ==
    /\ req[r].kind = "getProduct"
    /\ req[r].pc = "findOne"
    /\ LET product == findOneById(productCollection, NewObjectId(req[r].body.id))
       IN  IF product = Null
           THEN SendAfterOp(r, 404, [error |-> "Product not found"])
           ELSE SendAfterOp(r, 200, product)
    /\ UNCHANGED <<Main, Store, nreq>>

(***************************************************************************)
(* POST /product (lines 187-195)                                           *)
(***************************************************************************)
ProductBodies ==
    {[title |-> Mouse, category |-> "Laptop"],
     [title |-> Pad, category |-> "Tablet"]}

createProduct(r) ==
    /\ Accepting(r)
    /\ routes
    /\ \E newProduct \in ProductBodies : Begin(r, "createProduct", newProduct, "insertOne")
    /\ UNCHANGED <<Main, Store>>

createProduct_insertOne(r) ==
    /\ req[r].kind = "createProduct"
    /\ req[r].pc = "insertOne"
    /\ productCollection' = Append(productCollection, WithId(req[r].body, nextId))
    /\ nextId' = nextId + 1
    /\ SendAfterOp(r, 200, [acknowledged |-> TRUE, insertedId |-> nextId])
    /\ UNCHANGED <<Main, userCollection, nreq>>

(***************************************************************************)
(* PATCH /product/:id (lines 198-225)                                      *)
(***************************************************************************)
Patches == {[title |-> Pad], [released_date |-> "2024-01-01"]}

\* new Date(string)
ParseDate(s) == [date |-> s]

\* Lines 209-211: released_date, when present, becomes a Date.
coerce(updateData) ==
    IF Truthy(updateData, "released_date")
    THEN [updateData EXCEPT !.released_date = ParseDate(@)]
    ELSE updateData

\* Variant: the identifier is not validated, new ObjectId throwing into the
\* catch.
updateProduct_unchecked(r) ==
    /\ Accepting(r)
    /\ routes
    /\ \E id \in IdParams, patch \in Patches :
        IF ~ObjectIdIsValid(id)
        THEN Reject(r, "updateProduct", [id |-> id, updateData |-> coerce(patch)],
                    500, BSONError)
        ELSE Begin(r, "updateProduct", [id |-> id, updateData |-> coerce(patch)],
                   "updateOne")
    /\ UNCHANGED <<Main, Store>>

updateProduct(r) ==
    /\ Accepting(r)
    /\ routes
    /\ \E id \in IdParams, patch \in Patches :
        IF ~ObjectIdIsValid(id)
        THEN Reject(r, "updateProduct", [id |-> id, updateData |-> patch],
                    400, [error |-> "Invalid product ID"])
        ELSE Begin(r, "updateProduct", [id |-> id, updateData |-> coerce(patch)],
                   "updateOne")
    /\ UNCHANGED <<Main, Store>>

\* Variant: updateOne with { upsert: true }.
updateOne_upsert(coll, oid, updateData) ==
    LET m == {i \in 1..Len(coll) : coll[i]._id = oid}
    IN  IF m = {} THEN Append(coll, WithId(updateData, oid))
        ELSE [coll EXCEPT ![CHOOSE i \in m : \A j \in m : i <= j] = updateData @@ @]

\* updateOne({_id}, {$set: updateData}), no upsert: the first document with
\* that _id gets the fields of updateData.
updateOne(coll, oid, updateData) ==
    LET m == {i \in 1..Len(coll) : coll[i]._id = oid}
    IN  IF m = {} THEN coll
        ELSE [coll EXCEPT ![CHOOSE i \in m : \A j \in m : i <= j] = updateData @@ @]

updateResult(coll, after, oid) ==
    [acknowledged |-> TRUE,
     matchedCount |-> IF findOneById(coll, oid) = Null THEN 0 ELSE 1,
     modifiedCount |-> IF after = coll THEN 0 ELSE 1,
     upsertedCount |-> 0,
     upsertedId |-> Null]

updateProduct_updateOne(r) ==
    /\ req[r].kind = "updateProduct"
    /\ req[r].pc = "updateOne"
    /\ LET oid == NewObjectId(req[r].body.id)
           after == updateOne(productCollection, oid, req[r].body.updateData)
       IN  /\ productCollection' = after
           /\ SendAfterOp(r, 200, updateResult(productCollection, after, oid))
    /\ UNCHANGED <<Main, userCollection, nextId, nreq>>

(***************************************************************************)
(* DELETE /product/:id (lines 228-238)                                     *)
(***************************************************************************)
deleteProduct(r) ==
    /\ Accepting(r)
    /\ routes
    /\ \E id \in IdParams :
        IF ~ObjectIdIsValid(id)
        THEN Reject(r, "deleteProduct", [id |-> id], 500, BSONError)
        ELSE Begin(r, "deleteProduct", [id |-> id], "deleteOne")
    /\ UNCHANGED <<Main, Store>>

\* deleteOne({_id}): the first document with that _id is removed.
deleteOne(coll, oid) ==
    LET m == {i \in 1..Len(coll) : coll[i]._id = oid}
    IN  IF m = {} THEN coll
        ELSE LET i == CHOOSE i \in m : \A j \in m : i <= j
             IN  SubSeq(coll, 1, i - 1) \o SubSeq(coll, i + 1, Len(coll))

deleteProduct_deleteOne(r) ==
    /\ req[r].kind = "deleteProduct"
    /\ req[r].pc = "deleteOne"
    /\ LET after == deleteOne(productCollection, NewObjectId(req[r].body.id))
       IN  /\ productCollection' = after
           /\ SendAfterOp(r, 200, [acknowledged |-> TRUE,
                                   deletedCount |-> Len(productCollection) - Len(after)])
    /\ UNCHANGED <<Main, userCollection, nextId, nreq>>

(***************************************************************************)
(* The server                                                              *)
(***************************************************************************)
\* A request arrives.
Receive(r) ==
    \/ GetRoot(r)
    \/ Unrouted(r)
    \/ signup(r)
    \/ login(r)
    \/ google_signup(r)
    \/ listProducts(r)
    \/ getProduct(r)
    \/ createProduct(r)
    \/ updateProduct(r)
    \/ deleteProduct(r)

\* An awaited operation of a handler in flight completes.
Resume(r) ==
    \/ signup_findOne(r)
    \/ signup_insertOne(r)
    \/ login_findOne(r)
    \/ login_compare(r)
    \/ google_findOne(r)
    \/ google_insertOne(r)
    \/ listProducts_find(r)
    \/ getProduct_findOne(r)
    \/ createProduct_insertOne(r)
    \/ updateProduct_updateOne(r)
    \/ deleteProduct_deleteOne(r)

Startup == RunCalled \/ Listen \/ ConnectResolves \/ ConnectRejects

Next == Startup \/ \E r \in Slots : Receive(r) \/ Resume(r)

Spec == Init /\ [][Next]_vars

\* Requests handled one at a time: a request arrives only when no handler is
\* in flight.
SeqNext == Startup \/ \E r \in Slots : (NoneInFlight /\ Receive(r)) \/ Resume(r)

SeqSpec == Init /\ [][SeqNext]_vars

(***************************************************************************)
(* Vocabulary of the properties                                            *)
(***************************************************************************)
Done(r) == req[r].pc = "done"
Resp(r) == resp[r][1]

\* This step sends the response of slot r's request: a handler in flight
\* ends, or a request arrives in r and is answered before any await.
Answers(r) ==
    /\ req'[r].pc = "done"
    /\ \/ InFlight(r)
       \/ nreq' = nreq + 1 /\ Accepting(r)

EmailTaken(coll, email) == \E i \in 1..Len(coll) : coll[i].email = email
CountEmail(coll, email) == Cardinality({i \in 1..Len(coll) : coll[i].email = email})

\* Identifiers the driver has generated so far.
IssuedIds == 1..(nextId - 1)

AccountKinds == {"signup", "login", "google-signup"}
OneOpKinds == {"login", "listProducts", "getProduct", "createProduct",
               "updateProduct", "deleteProduct"}

\* The stored credentials of user verify password.
Verifies(user, password) ==
    "password" \in DOMAIN user /\ bcryptCompare(password, user.password)

(***************************************************************************)
(* C1 (SeqSpec).  With requests handled one at a time, a valid signup      *)
(* whose email equals that of no user document answers 200 with an         *)
(* identifier never issued before and appends exactly one user document;   *)
(* one whose email equals that of a user document answers 409 and leaves   *)
(* the user store as it was.                                               *)
(***************************************************************************)
C1_SequentialSignup ==
    [][\A r \in Slots :
        (Answers(r) /\ req'[r].kind = "signup" /\ signup_valid(req'[r].body)) =>
            IF EmailTaken(userCollection, req'[r].body.email)
            THEN /\ Resp(r)'.status = 409
                 /\ userCollection' = userCollection
            ELSE /\ Resp(r)'.status = 200
                 /\ Resp(r)'.body.userId \notin IssuedIds
                 /\ Len(userCollection') = Len(userCollection) + 1
                 /\ SubSeq(userCollection', 1, Len(userCollection)) = userCollection
                 /\ userCollection'[Len(userCollection')].email = req'[r].body.email
                 /\ userCollection'[Len(userCollection')]._id = Resp(r)'.body.userId
      ]_vars

\* A second signup with a used email has been answered 409, after a first
\* one created the user.
C1_Witness ==
    \E r \in Slots :
        /\ Done(r)
        /\ req[r].kind = "signup"
        /\ Resp(r).status = 409
        /\ \E i \in 1..Len(userCollection) :
            /\ userCollection[i].email = req[r].body.email
            /\ "password" \in DOMAIN userCollection[i]

(***************************************************************************)
(* C2 (SeqSpec).  A login with the email string and the password of a      *)
(* user that signup created answers 200 with a user view of exactly id,    *)
(* name, email and username.                                               *)
(***************************************************************************)
C2_LoginAfterSignup ==
    [][\A r \in Slots :
        (/\ Answers(r)
         /\ req'[r].kind = "login"
         /\ Truthy(req'[r].body, "password")
         /\ \E i \in 1..Len(userCollection) :
               /\ userCollection[i].email = req'[r].body.email
               /\ Verifies(userCollection[i], req'[r].body.password))
        => /\ Resp(r)'.status = 200
           /\ DOMAIN Resp(r)'.body.user = {"id", "name", "email", "username"}
      ]_vars

(***************************************************************************)
(* C3.  A login with both fields whose email matched no user, or whose     *)
(* password does not verify against the matched user, is answered 401      *)
(* with the one "Invalid credentials" body.                                *)
(***************************************************************************)
C3_LoginFailuresAlike ==
    \A r \in Slots :
        (/\ Done(r)
         /\ req[r].kind = "login"
         /\ Truthy(req[r].body, "email") /\ Truthy(req[r].body, "password")
         /\ \/ "user" \notin DOMAIN req[r]
            \/ ~Verifies(req[r].user, req[r].body.password))
        => Resp(r) = [status |-> 401, body |-> InvalidCredentials]

(***************************************************************************)
(* C4 (SeqSpec).  With requests handled one at a time, every valid         *)
(* google-signup answers 200 and leaves a user with its email in the       *)
(* store; when such a user existed already, the user store is left exactly *)
(* as it was: no document added, none modified.                            *)
(***************************************************************************)
C4_GoogleSignupIdempotent ==
    [][\A r \in Slots :
        (/\ Answers(r)
         /\ req'[r].kind = "google-signup"
         /\ Truthy(req'[r].body, "googleId"))
        => /\ Resp(r)'.status = 200
           /\ EmailTaken(userCollection', req'[r].body.email)
           /\ EmailTaken(userCollection, req'[r].body.email)
                => userCollection' = userCollection
           /\ ~EmailTaken(userCollection, req'[r].body.email)
                => CountEmail(userCollection', req'[r].body.email) = 1
      ]_vars

\* A google-signup was answered with the user it found (the found user
\* carries no id field), the store holding one document with that email.
C4_Witness ==
    \E r \in Slots :
        /\ Done(r)
        /\ req[r].kind = "google-signup"
        /\ Resp(r).status = 200
        /\ "id" \notin DOMAIN Resp(r).body.user
        /\ CountEmail(userCollection, req[r].body.email) = 1

(***************************************************************************)
(* C5.  The insert of a signup that passed its existence check is not      *)
(* conditioned on the store: it always appends a document and answers 200, *)
(* also when a document with the same email has appeared meanwhile.        *)
(***************************************************************************)
C5_InsertNotRechecked ==
    [][\A r \in Slots :
        (req[r].kind = "signup" /\ req[r].pc = "insertOne" /\ req'[r].pc = "done")
        => /\ Len(userCollection') = Len(userCollection) + 1
           /\ userCollection'[Len(userCollection')].email = req[r].body.email
           /\ Resp(r)'.status = 200
      ]_vars

\* Two overlapping signups with one email both succeeded and the store
\* holds two documents with that email.
C5_Witness ==
    /\ \A r \in Slots :
        /\ Done(r)
        /\ req[r].kind = "signup"
        /\ Resp(r).status = 200
    /\ req["h1"].body.email = req["h2"].body.email
    /\ Resp("h1").body.userId # Resp("h2").body.userId
    /\ CountEmail(userCollection, req["h1"].body.email) = 2

(***************************************************************************)
(* C6.  The server listens, and a request is received, only once the       *)
(* store connection is established.                                        *)
(***************************************************************************)
C6_ListenAfterConnect == (listening \/ nreq > 0) => conn = "connected"

(***************************************************************************)
(* C7.  updateProduct and deleteProduct with a well-formed identifier of   *)
(* no product answer 200 with a zero-matched, respectively zero-deleted,   *)
(* acknowledgment and leave the product store as it was.                   *)
(***************************************************************************)
C7_NoMatchIsNoError ==
    [][\A r \in Slots :
        (/\ Answers(r)
         /\ req'[r].kind \in {"updateProduct", "deleteProduct"}
         /\ ObjectIdIsValid(req'[r].body.id)
         /\ findOneById(productCollection, NewObjectId(req'[r].body.id)) = Null)
        => /\ Resp(r)'.status = 200
           /\ req'[r].kind = "updateProduct" =>
                /\ Resp(r)'.body.matchedCount = 0
                /\ Resp(r)'.body.modifiedCount = 0
                /\ Resp(r)'.body.upsertedCount = 0
           /\ req'[r].kind = "deleteProduct" => Resp(r)'.body.deletedCount = 0
           /\ productCollection' = productCollection
      ]_vars

\* An update and a delete of absent identifiers were both acknowledged with
\* zero counts while the store holds a product.
C7_Witness ==
    /\ Len(productCollection) > 0
    /\ Done("h1") /\ Done("h2")
    /\ \E r, q \in Slots :
        /\ req[r].kind = "updateProduct"
        /\ Resp(r).status = 200
        /\ Resp(r).body.matchedCount = 0
        /\ req[q].kind = "deleteProduct"
        /\ Resp(q).status = 200
        /\ Resp(q).body.deletedCount = 0

(***************************************************************************)
(* C8.  With an identifier that is not well formed, updateProduct answers  *)
(* 400 and getProduct and deleteProduct answer 500; the handler issues no  *)
(* store operation and the product store is left as it was.                *)
(***************************************************************************)
C8_MalformedId ==
    [][\A r \in Slots :
        (/\ Answers(r)
         /\ req'[r].kind \in {"updateProduct", "getProduct", "deleteProduct"}
         /\ ~ObjectIdIsValid(req'[r].body.id))
        => /\ Resp(r)'.status = IF req'[r].kind = "updateProduct" THEN 400 ELSE 500
           /\ req'[r].ops = 0
           /\ productCollection' = productCollection
      ]_vars

\* An updateProduct with a malformed identifier has been answered 400 and a
\* getProduct or deleteProduct with one 500, the store holding a product.
C8_Witness ==
    /\ Len(productCollection) > 0
    /\ \E r, q \in Slots :
        /\ Done(r) /\ Done(q)
        /\ req[r].kind = "updateProduct"
        /\ req[r].body.id = "xyz"
        /\ Resp(r).status = 400
        /\ req[q].kind \in {"getProduct", "deleteProduct"}
        /\ req[q].body.id = "xyz"
        /\ Resp(q).status = 500

(***************************************************************************)
(* C9, as claimed.  No request performs more than one store operation      *)
(* (exactly one, unless it is rejected before the store is reached).       *)
(***************************************************************************)
C9_OneStoreOperation ==
    \A r \in Slots :
        /\ req[r].ops <= 1
        /\ (Done(r) /\ req[r].kind \in AccountKinds \cup OneOpKinds
            /\ Resp(r).status \in {200, 401, 404, 409}) => req[r].ops = 1

(***************************************************************************)
(* C9, amended.  login and the catalog handlers perform at most one store  *)
(* operation per request, exactly one when they answer 200, 401 or 404.    *)
(* signup and google-signup perform a lookup and, when it finds no user,   *)
(* an insert: one operation when the user is found, two when a user is     *)
(* created, and never more.  A handler writes to the store at most once,   *)
(* as its last operation, answered 200: no failure leaves a partial write. *)
(***************************************************************************)
StoreOperationCounts ==
    \A r \in Slots :
        /\ req[r].kind \in OneOpKinds =>
            /\ req[r].ops <= 1
            /\ (Done(r) /\ Resp(r).status \in {200, 401, 404}) => req[r].ops = 1
            /\ (Done(r) /\ req[r].kind = "login" /\ Resp(r).status = 500) => req[r].ops = 1
        /\ req[r].kind \in {"signup", "google-signup"} =>
            /\ req[r].ops <= 2
            /\ req[r].pc = "insertOne" => req[r].ops = 1
            /\ (Done(r) /\ Resp(r).status = 409) => req[r].ops = 1
            /\ (Done(r) /\ Resp(r).status = 200) =>
                 req[r].ops = IF req[r].kind = "signup" \/ "id" \in DOMAIN Resp(r).body.user
                              THEN 2 ELSE 1
        /\ req[r].kind \in {"root", "unrouted", "none"} => req[r].ops = 0

WriteIsLastOperation ==
    (userCollection' # userCollection \/ productCollection' # productCollection) =>
        \E r \in Slots :
            /\ InFlight(r)
            /\ req'[r].pc = "done"
            /\ req'[r].ops = req[r].ops + 1
            /\ Resp(r)'.status = 200
            /\ \A q \in Slots \ {r} : req'[q] = req[q]

C9_StoreOperationsPerHandler == []StoreOperationCounts /\ [][WriteIsLastOperation]_vars

\* A signup is between its lookup and its insert while the store already
\* holds a document with its email, inserted by another request meanwhile.
C9_Witness ==
    \E r \in Slots :
        /\ req[r].kind = "signup"
        /\ req[r].pc = "insertOne"
        /\ req[r].ops = 1
        /\ EmailTaken(userCollection, req[r].body.email)

(***************************************************************************)
(* C10.  No response of an account route carries a stored password hash.   *)
(***************************************************************************)
CarriesPasswordHash(body) ==
    /\ "user" \in DOMAIN body
    /\ "password" \in DOMAIN body.user

C10_NoHashInResponse ==
    \A r \in Slots :
        (Done(r) /\ req[r].kind \in AccountKinds) => ~CarriesPasswordHash(Resp(r).body)
====
